---- MODULE Spec2Model ----
(***************************************************************************)
(* A model of extended_containers.NestedDict: a hierarchy of dict nodes    *)
(* addressed by dot-separated composite keys, each node carrying a flat    *)
(* index (__chainmap__) of the leaves below it.                            *)
(*                                                                         *)
(* Python strings are modelled as sequences of one-character strings, so   *)
(* that str.partition(".") and str.startswith() are computed character by  *)
(* character.  Objects (NestedDict nodes, leaf values) are modelled by     *)
(* identity: nodes are heap cells named by a number, leaf values by name.  *)
(*                                                                         *)
(* The module also models the flat containers of the package, AliasDict,   *)
(* ReversibleMap and TypedList, each with a specification of its own.      *)
(***************************************************************************)
EXTENDS Integers, Sequences, FiniteSets, TLC

VARIABLES
    heap,        \* node identity -> [children, chainmap, parent, key]
    leafParent,  \* leaf value -> the node in its parent slot
    last,        \* the call made last, with its arguments and how it ended
    prev,        \* heap and leafParent as they were when that call was made
    nops,        \* number of calls made
    aliasDict,   \* an AliasDict: [aliases, items]
    aliasLast,   \* the call made last on the AliasDict
    revMap,      \* a ReversibleMap: [items, reversed]
    revLast,     \* the call made last on the ReversibleMap
    typedList,   \* a TypedList[int]: its items in order
    typedLast,   \* the call made last on the TypedList
    typedPrev    \* the items as they were when that call was made

vars == <<heap, leafParent, last, prev, nops, aliasDict, aliasLast, revMap, revLast,
          typedList, typedLast, typedPrev>>

\* the state of the TypedList
typedVars == <<typedList, typedLast, typedPrev>>

\* the state of the flat containers
flatVars == <<aliasDict, aliasLast, revMap, revLast, typedList, typedLast, typedPrev>>

\* the state of the NestedDict hierarchy
nestedVars == <<heap, leafParent, last, prev, nops>>

---------------------------------------------------------------------------
(* Bounds of the model *)

\* number of mutating calls in one run
MaxOps == 3

\* size of the pool of node identities besides the root
MaxNodes == 8

\* number of items in a mapping handed to update, |= or a constructor, and in
\* an iterable handed to TypedList.extend or TypedList.remove
MaxItems == 2

\* length a TypedList grows to
MaxLen == 3

---------------------------------------------------------------------------
(* Inputs *)

DOT == "."

SegA == <<"a">>

SegAB == <<"a", "b">>

\* path segments: "a" and "ab" (one a raw string prefix of the other)
Segments == {SegA, SegAB}

Join(s, k) == s \o <<DOT>> \o k

Keys1 == Segments

Keys2 == {Join(s, t) : s \in Segments, t \in Segments}

Keys3 == {Join(s, k) : s \in Segments, k \in Keys2}

\* composite keys handed to the mutating calls: every key of one or two
\* segments, and the keys of three segments that start with "a"
Keys == Keys1 \cup Keys2 \cup {Join(SegA, k) : k \in Keys2}

\* composite keys the claims read with: one to three segments
QueryKeys == Keys1 \cup Keys2 \cup Keys3

\* leaf value objects (each has a mutable parent slot)
Values == {"v1", "v2"}

---------------------------------------------------------------------------
(* Python values that can sit in a child slot or be returned by get *)

NoNode == -1

Root == 0

NodeIds == 0..MaxNodes

PyNone == [t |-> "none"]

Leaf(v) == [t |-> "leaf", v |-> v]

Branch(n) == [t |-> "branch", n |-> n]

\* an arbitrary caller object that is neither a node nor a stored leaf
Sentinel == [t |-> "obj", v |-> "NOT FOUND"]

\* isinstance(x, NestedDict)
IsNestedDict(x) == x.t = "branch"

---------------------------------------------------------------------------
(* dict helpers *)

EmptyDict == <<>>

Put(f, k, v) == [x \in (DOMAIN f) \cup {k} |-> IF x = k THEN v ELSE f[x]]

Drop(f, S) == [x \in (DOMAIN f) \ S |-> f[x]]

\* dict.get(k, default)
DictGet(f, k, default) == IF k \in DOMAIN f THEN f[k] ELSE default

---------------------------------------------------------------------------
(* str helpers *)

\* index of the first "." of key, 0 if none
FirstDot(key) ==
    IF \E i \in 1..Len(key) : key[i] = DOT
    THEN CHOOSE i \in 1..Len(key) :
            key[i] = DOT /\ \A j \in 1..(i - 1) : key[j] # DOT
    ELSE 0

\* key.partition("."): head before the first ".", rest after it
Partition(key) ==
    LET d == FirstDot(key)
    IN  IF d = 0
        THEN [self_key |-> key, node_key |-> <<>>]
        ELSE [self_key |-> SubSeq(key, 1, d - 1),
              node_key |-> SubSeq(key, d + 1, Len(key))]

\* k.startswith(p): raw string prefix
StartsWith(k, p) == Len(p) <= Len(k) /\ SubSeq(k, 1, Len(p)) = p

---------------------------------------------------------------------------
(* NestedDict *)

\* a node constructed without its parent back-reference
NewNode_orphan(parent, key) ==
    [children |-> EmptyDict, chainmap |-> EmptyDict, parent |-> NoNode, key |-> key]

\* NestedDict(parent=parent, key=key): an empty node
NewNode(parent, key) ==
    [children |-> EmptyDict, chainmap |-> EmptyDict, parent |-> parent, key |-> key]

\* identity of a freshly constructed node: the lowest number not in use
Alloc(h) ==
    CHOOSE i \in NodeIds \ DOMAIN h : \A j \in NodeIds \ DOMAIN h : i <= j

\* NestedDict.get(key, default)
RECURSIVE get(_, _, _, _)
get(h, n, key, default) ==
    LET p == Partition(key)
        branch == DictGet(h[n].children, p.self_key, default)
    IN  IF p.node_key = <<>>
        THEN branch
        ELSE IF IsNestedDict(branch)
             THEN get(h, branch.n, p.node_key, default)
             ELSE default

\* NestedDict.__contains__(key)
RECURSIVE contains(_, _, _)
contains(h, n, key) ==
    LET p == Partition(key)
    IN  IF p.self_key \in DOMAIN h[n].children
        THEN IF p.node_key = <<>>
             THEN TRUE
             ELSE LET branch == h[n].children[p.self_key]
                  IN  IsNestedDict(branch) /\ contains(h, branch.n, p.node_key)
        ELSE FALSE

\* NestedDict.get_leaf(key): the value, or a KeyError
get_leaf(h, n, key) ==
    IF key \in DOMAIN h[n].chainmap
    THEN [outcome |-> "ok", value |-> Leaf(h[n].chainmap[key])]
    ELSE [outcome |-> "KeyError", value |-> PyNone]

\* set with the store of the next branch into its child slot left out
RECURSIVE set_unlinked(_, _, _, _)
set_unlinked(st, n, key, value) ==
    LET h0 == st.heap
        h1 == [h0 EXCEPT ![n].chainmap = Put(@, key, value)]
        p == Partition(key)
    IN  IF p.node_key # <<>>
        THEN LET found == DictGet(h1[n].children, p.self_key, PyNone)
                 fresh == found = PyNone \/ ~IsNestedDict(found)
                 nb == IF fresh THEN Alloc(h1) ELSE found.n
                 h2 == IF fresh
                       THEN [x \in (DOMAIN h1) \cup {nb} |->
                                IF x = nb THEN NewNode(n, p.self_key) ELSE h1[x]]
                       ELSE h1
             IN  set_unlinked([heap |-> h2, leafParent |-> st.leafParent],
                              nb, p.node_key, value)
        ELSE [heap |-> [h1 EXCEPT ![n].children = Put(@, p.self_key, Leaf(value))],
              leafParent |-> [st.leafParent EXCEPT ![value] = n]]

\* set that puts a new branch at every intermediate segment, an existing
\* branch included
RECURSIVE set_replacing(_, _, _, _)
set_replacing(st, n, key, value) ==
    LET h0 == st.heap
        h1 == [h0 EXCEPT ![n].chainmap = Put(@, key, value)]
        p == Partition(key)
    IN  IF p.node_key # <<>>
        THEN LET nb == Alloc(h1)
                 h2 == [x \in (DOMAIN h1) \cup {nb} |->
                           IF x = nb THEN NewNode(n, p.self_key) ELSE h1[x]]
                 h3 == [h2 EXCEPT ![n].children = Put(@, p.self_key, Branch(nb))]
             IN  set_replacing([heap |-> h3, leafParent |-> st.leafParent],
                               nb, p.node_key, value)
        ELSE [heap |-> [h1 EXCEPT ![n].children = Put(@, p.self_key, Leaf(value))],
              leafParent |-> [st.leafParent EXCEPT ![value] = n]]

\* NestedDict.set(key, value) on node n; st = [heap, leafParent]
RECURSIVE set(_, _, _, _)
set(st, n, key, value) ==
    LET h0 == st.heap
        h1 == [h0 EXCEPT ![n].chainmap = Put(@, key, value)]
        p == Partition(key)
    IN  IF p.node_key # <<>>
        THEN LET found == get(h1, n, p.self_key, PyNone)
                 fresh == found = PyNone \/ ~IsNestedDict(found)
                 nb == IF fresh THEN Alloc(h1) ELSE found.n
                 h2 == IF fresh
                       THEN [x \in (DOMAIN h1) \cup {nb} |->
                                IF x = nb THEN NewNode(n, p.self_key) ELSE h1[x]]
                       ELSE h1
                 h3 == [h2 EXCEPT ![n].children = Put(@, p.self_key, Branch(nb))]
             IN  set([heap |-> h3, leafParent |-> st.leafParent], nb, p.node_key, value)
        ELSE [heap |-> [h1 EXCEPT ![n].children = Put(@, p.self_key, Leaf(value))],
              leafParent |-> [st.leafParent EXCEPT ![value] = n]]

\* leaf_keys_to_delete matching the key itself only
leaf_keys_exact(cm, key) == {k \in DOMAIN cm : k = key}

\* the keys delete_key removes from a flat index: {k for k in chainmap if k.startswith(key)}
leaf_keys_to_delete(cm, key) == {k \in DOMAIN cm : StartsWith(k, key)}

\* delete_key that tolerates a missing last segment (self.pop(self_key, None))
RECURSIVE delete_key_pop(_, _, _)
delete_key_pop(h0, n, key) ==
    LET h1 == [h0 EXCEPT ![n].chainmap = Drop(@, leaf_keys_to_delete(@, key))]
        p == Partition(key)
    IN  IF p.node_key = <<>>
        THEN [heap |-> [h1 EXCEPT ![n].children = Drop(@, {p.self_key})],
              outcome |-> "ok", at |-> NoNode]
        ELSE IF p.self_key \notin DOMAIN h1[n].children
             THEN [heap |-> h1, outcome |-> "KeyError", at |-> n]
             ELSE LET sub_node == h1[n].children[p.self_key]
                  IN  IF IsNestedDict(sub_node)
                      THEN delete_key_pop(h1, sub_node.n, p.node_key)
                      ELSE [heap |-> h1, outcome |-> "AttributeError", at |-> n]

\* delete_key that also removes a branch its recursion left empty
RECURSIVE delete_key_prune(_, _, _)
delete_key_prune(h0, n, key) ==
    LET h1 == [h0 EXCEPT ![n].chainmap = Drop(@, leaf_keys_to_delete(@, key))]
        p == Partition(key)
    IN  IF p.self_key \notin DOMAIN h1[n].children
        THEN [heap |-> h1, outcome |-> "KeyError", at |-> n]
        ELSE IF p.node_key = <<>>
             THEN [heap |-> [h1 EXCEPT ![n].children = Drop(@, {p.self_key})],
                   outcome |-> "ok", at |-> NoNode]
             ELSE LET sub_node == h1[n].children[p.self_key]
                  IN  IF IsNestedDict(sub_node)
                      THEN LET r == delete_key_prune(h1, sub_node.n, p.node_key)
                           IN  IF r.outcome = "ok" /\ r.heap[sub_node.n].children = EmptyDict
                               THEN [r EXCEPT !.heap =
                                        [r.heap EXCEPT ![n].children = Drop(@, {p.self_key})]]
                               ELSE r
                      ELSE [heap |-> h1, outcome |-> "AttributeError", at |-> n]

\* NestedDict.delete_key(key) on node n: the heap it leaves, how it ended and
\* the node whose frame raised
RECURSIVE delete_key(_, _, _)
delete_key(h0, n, key) ==
    LET h1 == [h0 EXCEPT ![n].chainmap = Drop(@, leaf_keys_to_delete(@, key))]
        p == Partition(key)
    IN  IF p.self_key \notin DOMAIN h1[n].children
        THEN [heap |-> h1, outcome |-> "KeyError", at |-> n]
        ELSE IF p.node_key = <<>>
             THEN [heap |-> [h1 EXCEPT ![n].children = Drop(@, {p.self_key})],
                   outcome |-> "ok", at |-> NoNode]
             ELSE LET sub_node == h1[n].children[p.self_key]
                  IN  IF IsNestedDict(sub_node)
                      THEN delete_key(h1, sub_node.n, p.node_key)
                      ELSE [heap |-> h1, outcome |-> "AttributeError", at |-> n]

\* NestedDict.clear() on node n
clear(h, n) == [h EXCEPT ![n].chainmap = EmptyDict, ![n].children = EmptyDict]

\* bool(node): a dict is true when it has items
Truthy(h, n) == n # NoNode /\ h[n].children # EmptyDict

\* the key property joining the parent's path and the own segment whenever
\* there is a parent, without looking at the parent's path
RECURSIVE AbsKey_leading_dot(_, _)
AbsKey_leading_dot(h, n) ==
    IF Truthy(h, h[n].parent)
    THEN AbsKey_leading_dot(h, h[n].parent) \o <<DOT>> \o h[n].key
    ELSE h[n].key

\* NestedDict.key (property): the composite key that finds node n from the root
RECURSIVE AbsKey(_, _)
AbsKey(h, n) ==
    LET parent == h[n].parent
    IN  IF Truthy(h, parent) /\ AbsKey(h, parent) # <<>>
        THEN AbsKey(h, parent) \o <<DOT>> \o h[n].key
        ELSE h[n].key

---------------------------------------------------------------------------
(* AliasDict: a dict with a table of aliases, fixed at construction *)

\* the names used as keys and as aliases
Names == {"x", "y", "z"}

\* the alias tables: every mapping of some of the names to names
AliasTables == UNION {[S -> Names] : S \in SUBSET Names}

\* the mappings handed to update: up to MaxItems items with distinct keys, in
\* iteration order
Mappings(K, V) ==
    UNION {{m \in [1..len -> K \X V] :
               \A i \in 1..len : \A j \in 1..len : m[i][1] = m[j][1] => i = j} :
           len \in 0..MaxItems}

\* AliasDict(aliases=table)
NewAliasDict(table) == [aliases |-> table, items |-> EmptyDict]

\* AliasDict._canonical(key)
canonical(d, key) == DictGet(d.aliases, key, key)

\* AliasDict.__getitem__(key)
alias_getitem(d, key) ==
    IF canonical(d, key) \in DOMAIN d.items
    THEN [outcome |-> "ok", value |-> d.items[canonical(d, key)]]
    ELSE [outcome |-> "KeyError", value |-> "none"]

\* AliasDict.__setitem__(key, value)
alias_setitem(d, key, value) == [d EXCEPT !.items = Put(@, canonical(d, key), value)]

\* AliasDict.__delitem__(key)
alias_delitem(d, key) ==
    IF canonical(d, key) \in DOMAIN d.items
    THEN [d |-> [d EXCEPT !.items = Drop(@, {canonical(d, key)})], outcome |-> "ok"]
    ELSE [d |-> d, outcome |-> "KeyError"]

\* AliasDict.pop(key) and AliasDict.pop(key, default)
alias_pop(d, key, has_default) ==
    LET canon == canonical(d, key)
    IN  IF canon \in DOMAIN d.items
        THEN [d |-> [d EXCEPT !.items = Drop(@, {canon})], outcome |-> "ok"]
        ELSE [d |-> d, outcome |-> IF has_default THEN "default" ELSE "KeyError"]

\* AliasDict.update(other): self[k] = v for each item from the i-th on
RECURSIVE alias_update(_, _, _)
alias_update(d, other, i) ==
    IF i > Len(other)
    THEN d
    ELSE alias_update(alias_setitem(d, other[i][1], other[i][2]), other, i + 1)

---------------------------------------------------------------------------
(* ReversibleMap: a dict of values that have an identity, with an index     *)
(* from the hash of the identity to the key.  The items are kept as a       *)
(* sequence of <<key, value>> in insertion order, the order dict iterates   *)
(* in.                                                                      *)

RevKeys == {"k1", "k2"}

\* the value objects: p and q are two objects of one identity
RevValues == {"p", "q", "r"}

\* value.identity
Identity(v) == IF v = "r" THEN 2 ELSE 1

Identities == {Identity(v) : v \in RevValues}

\* hash(identity): the hash of a small int is the int
Hash(i) == i

\* the position of key k in the items, 0 if absent
IndexOf(items, k) ==
    IF \E i \in 1..Len(items) : items[i][1] = k
    THEN CHOOSE i \in 1..Len(items) : items[i][1] = k
    ELSE 0

\* dict.__setitem__: a present key keeps its place, a new key goes last
ItemPut(items, k, v) ==
    IF IndexOf(items, k) # 0
    THEN [items EXCEPT ![IndexOf(items, k)] = <<k, v>>]
    ELSE Append(items, <<k, v>>)

\* dict.__delitem__ of a present key
ItemDrop(items, k) ==
    SubSeq(items, 1, IndexOf(items, k) - 1) \o SubSeq(items, IndexOf(items, k) + 1, Len(items))

\* dict.update(other)
RECURSIVE ItemUpdate(_, _, _)
ItemUpdate(items, other, i) ==
    IF i > Len(other)
    THEN items
    ELSE ItemUpdate(ItemPut(items, other[i][1], other[i][2]), other, i + 1)

\* for k, v in self.items(): _reversed[hash(v.identity)] = k, from the i-th item on
RECURSIVE Reindex(_, _, _)
Reindex(reversed, items, i) ==
    IF i > Len(items)
    THEN reversed
    ELSE Reindex(Put(reversed, Hash(Identity(items[i][2])), items[i][1]), items, i + 1)

\* ReversibleMap(mapping)
NewReversibleMap(mapping) ==
    [items |-> ItemUpdate(<<>>, mapping, 1),
     reversed |-> Reindex(EmptyDict, ItemUpdate(<<>>, mapping, 1), 1)]

\* ReversibleMap.__setitem__(key, value)
rev_setitem(m, key, value) ==
    [items |-> ItemPut(m.items, key, value),
     reversed |-> Put(m.reversed, Hash(Identity(value)), key)]

\* ReversibleMap.__delitem__(key): self[key] raises for an absent key; the
\* del on _reversed raises, after the item is gone, for an absent hash
rev_delitem(m, key) ==
    IF IndexOf(m.items, key) = 0
    THEN [m |-> m, outcome |-> "KeyError"]
    ELSE LET value == m.items[IndexOf(m.items, key)][2]
             m1 == [m EXCEPT !.items = ItemDrop(@, key)]
         IN  IF Hash(Identity(value)) \in DOMAIN m1.reversed
             THEN [m |-> [m1 EXCEPT !.reversed = Drop(@, {Hash(Identity(value))})],
                   outcome |-> "ok"]
             ELSE [m |-> m1, outcome |-> "KeyError"]

\* ReversibleMap.update(other), and __ior__ which calls it
rev_update(m, other) ==
    [items |-> ItemUpdate(m.items, other, 1),
     reversed |-> Reindex(m.reversed, ItemUpdate(m.items, other, 1), 1)]

\* ReversibleMap.rget(x), x a value object (has_identity: hasattr(x, "identity"))
\* or a raw identity
rget(m, x, has_identity) ==
    LET hv == IF has_identity THEN Hash(Identity(x)) ELSE Hash(x)
    IN  IF hv \in DOMAIN m.reversed
        THEN [outcome |-> "ok", key |-> m.reversed[hv]]
        ELSE [outcome |-> "KeyError", key |-> "none"]

---------------------------------------------------------------------------
(* TypedList[int]: a list whose extend and remove take one item or an       *)
(* iterable of items and check each against the element type                *)

\* item objects: two ints and a str
PyInt(i) == [t |-> "int", v |-> i]

PyStr(c) == [t |-> "str", v |-> c]

Items == {PyInt(1), PyInt(2), PyStr("s")}

\* isinstance(x, ValidType), ValidType being int
IsValidType(x) == x.t = "int"

\* the arguments of extend and remove: one item, or a list of up to MaxItems items
Params ==
    {[iterable |-> FALSE, items |-> <<x>>] : x \in Items} \cup
    {[iterable |-> TRUE, items |-> q] : q \in UNION {[1..len -> Items] : len \in 0..MaxItems}}

\* TypedList._check_param(p): the items of p, or of (p,), after every one
\* passed the isinstance test
check_param(p) ==
    IF \E i \in 1..Len(p.items) : ~IsValidType(p.items[i])
    THEN [outcome |-> "TypeError", items |-> <<>>]
    ELSE [outcome |-> "ok", items |-> p.items]

\* x in l
Has(l, x) == \E i \in 1..Len(l) : l[i] = x

\* list.remove(x) on a list that has x: the first occurrence goes
ListRemove(l, x) ==
    LET i == CHOOSE j \in 1..Len(l) : l[j] = x /\ \A k \in 1..(j - 1) : l[k] # x
    IN  SubSeq(l, 1, i - 1) \o SubSeq(l, i + 1, Len(l))

\* with suppress(ValueError): for x in _r: super().remove(x), from the i-th
\* item on; the ValueError of an absent item ends the loop
RECURSIVE remove_loop(_, _, _)
remove_loop(l, r, i) ==
    IF i > Len(r)
    THEN l
    ELSE IF Has(l, r[i])
         THEN remove_loop(ListRemove(l, r[i]), r, i + 1)
         ELSE l

\* TypedList.remove(r)
typed_remove(l, r) ==
    LET c == check_param(r)
    IN  IF c.outcome # "ok"
        THEN [list |-> l, outcome |-> c.outcome]
        ELSE [list |-> remove_loop(l, c.items, 1), outcome |-> "ok"]

\* TypedList.extend(e)
typed_extend(l, e) ==
    LET c == check_param(e)
    IN  IF c.outcome # "ok"
        THEN [list |-> l, outcome |-> c.outcome]
        ELSE [list |-> l \o c.items, outcome |-> "ok"]

\* TypedList[int](), not called
TypedIdle ==
    /\ typedList = <<>>
    /\ typedLast = [op |-> "init", param |-> [iterable |-> TRUE, items |-> <<>>],
                    outcome |-> "ok"]
    /\ typedPrev = <<>>

\* the flat containers constructed empty and not called
FlatIdle ==
    /\ aliasDict = NewAliasDict(EmptyDict)
    /\ aliasLast = [op |-> "init", key |-> "none", value |-> "none", outcome |-> "ok"]
    /\ revMap = NewReversibleMap(<<>>)
    /\ revLast = [op |-> "init", key |-> "none", value |-> "none", outcome |-> "ok"]
    /\ TypedIdle

---------------------------------------------------------------------------
(* Object lifetime: a node lives while the root, a live node (child slot   *)
(* or parent back-reference) or a leaf value's parent slot refers to it.   *)

\* the branch nodes held in the child slots of node m
ChildNodes(h, m) ==
    {h[m].children[s].n : s \in {s \in DOMAIN h[m].children : IsNestedDict(h[m].children[s])}}

Referenced(h, S) ==
    S \cup UNION {ChildNodes(h, m) : m \in S} \cup ({h[m].parent : m \in S} \ {NoNode})

RECURSIVE Live(_, _)
Live(h, S) ==
    LET T == Referenced(h, S)
    IN  IF T = S THEN S ELSE Live(h, T)

Collect(h, lp) ==
    LET keep == Live(h, {Root} \cup ({lp[v] : v \in Values} \ {NoNode}))
    IN  [x \in keep |-> h[x]]

---------------------------------------------------------------------------
(* What a key addresses, read off the tree alone (the reference the claims *)
(* compare the operations with).                                           *)

Unresolved == [t |-> "unresolved"]

\* the segments of a composite key, in order
RECURSIVE SegmentsOf(_)
SegmentsOf(key) ==
    LET p == Partition(key)
    IN  IF p.node_key = <<>> THEN <<p.self_key>> ELSE <<p.self_key>> \o SegmentsOf(p.node_key)

\* the child reached from node n by the segments segs[i..], or Unresolved
RECURSIVE Walk(_, _, _, _)
Walk(h, n, segs, i) ==
    IF segs[i] \notin DOMAIN h[n].children
    THEN Unresolved
    ELSE LET c == h[n].children[segs[i]]
         IN  IF i = Len(segs) THEN c
             ELSE IF c.t = "branch" THEN Walk(h, c.n, segs, i + 1)
             ELSE Unresolved

Resolve(h, n, key) == Walk(h, n, SegmentsOf(key), 1)

\* the nodes of the hierarchy: the root and every branch below it
TreeNodes(h) ==
    LET RECURSIVE Below(_)
        Below(S) == LET T == S \cup UNION {ChildNodes(h, m) : m \in S}
                    IN  IF T = S THEN S ELSE Below(T)
    IN  Below({Root})

\* k is key itself or extends key on a segment boundary
Covered(k, key) == k = key \/ StartsWith(k, key \o <<DOT>>)

\* the nodes a call with key on node n recurses through (n first), each with
\* the part of the key it is handed
RECURSIVE Visits(_, _, _)
Visits(h, n, key) ==
    LET p == Partition(key)
    IN  {<<n, key>>} \cup
        (IF /\ p.node_key # <<>>
            /\ p.self_key \in DOMAIN h[n].children
            /\ h[n].children[p.self_key].t = "branch"
         THEN Visits(h, h[n].children[p.self_key].n, p.node_key)
         ELSE {})

\* the default objects a caller hands to get: None, an unrelated object, a leaf
\* value, a node of the hierarchy
Defaults(h) ==
    {PyNone, Sentinel} \cup {Leaf(v) : v \in Values} \cup {Branch(m) : m \in TreeNodes(h)}

---------------------------------------------------------------------------
(* The state machine: calls made on a node of the hierarchy *)

\* NestedDict(): the empty root, no call made
NestedInit ==
    /\ heap = [x \in {Root} |-> NewNode(NoNode, <<>>)]
    /\ leafParent = [v \in Values |-> NoNode]
    /\ last = [op |-> "init", node |-> Root, key |-> <<>>, value |-> "none",
               outcome |-> "ok", at |-> NoNode]
    /\ prev = [heap |-> [x \in {Root} |-> NewNode(NoNode, <<>>)],
               leafParent |-> [v \in Values |-> NoNode]]
    /\ nops = 0

Init == NestedInit /\ FlatIdle

CanAlloc(h, key) ==
    Cardinality(NodeIds \ DOMAIN h) >= Cardinality({i \in 1..Len(key) : key[i] = DOT})

Set(n, key, value) ==
    /\ nops < MaxOps
    /\ n \in DOMAIN heap
    /\ CanAlloc(heap, key)
    /\ LET st == set([heap |-> heap, leafParent |-> leafParent], n, key, value)
       IN  /\ heap' = Collect(st.heap, st.leafParent)
           /\ leafParent' = st.leafParent
    /\ last' = [op |-> "set", node |-> n, key |-> key, value |-> value,
                outcome |-> "ok", at |-> NoNode]
    /\ prev' = [heap |-> heap, leafParent |-> leafParent]
    /\ nops' = nops + 1
    /\ UNCHANGED flatVars

DeleteKey(n, key) ==
    /\ nops < MaxOps
    /\ n \in DOMAIN heap
    /\ LET r == delete_key(heap, n, key)
       IN  /\ heap' = Collect(r.heap, leafParent)
           /\ last' = [op |-> "delete_key", node |-> n, key |-> key, value |-> "none",
                       outcome |-> r.outcome, at |-> r.at]
    /\ UNCHANGED leafParent
    /\ UNCHANGED flatVars
    /\ prev' = [heap |-> heap, leafParent |-> leafParent]
    /\ nops' = nops + 1

Clear(n) ==
    /\ nops < MaxOps
    /\ n \in DOMAIN heap
    /\ heap' = Collect(clear(heap, n), leafParent)
    /\ last' = [op |-> "clear", node |-> n, key |-> <<>>, value |-> "none",
                outcome |-> "ok", at |-> NoNode]
    /\ UNCHANGED leafParent
    /\ UNCHANGED flatVars
    /\ prev' = [heap |-> heap, leafParent |-> leafParent]
    /\ nops' = nops + 1

RootSet == \E key \in Keys, value \in Values : Set(Root, key, value)

RootDeleteKey == \E key \in Keys : DeleteKey(Root, key)

RootClear == Clear(Root)

Next == RootSet \/ RootDeleteKey \/ RootClear

Spec == Init /\ [][Next]_vars

(* Calls made on the root or on a branch node obtained from the root by get *)

\* the branch nodes get returns from the root
BranchNodes(h) == TreeNodes(h) \ {Root}

\* keys passed to the calls made on a branch node
NodeKeys == Keys1

NodeSet ==
    \E n \in BranchNodes(heap) : \E key \in NodeKeys, value \in Values : Set(n, key, value)

NodeDeleteKey ==
    \E n \in BranchNodes(heap) : \E key \in NodeKeys : DeleteKey(n, key)

NodeClear == \E n \in BranchNodes(heap) : Clear(n)

NextNode == Next \/ NodeSet \/ NodeDeleteKey \/ NodeClear

SpecNode == Init /\ [][NextNode]_vars

---------------------------------------------------------------------------
(* A root constructed from a mapping: NestedDict({"ab": v2, "a": NestedDict({...})}) *)

\* NestedDict(mapping): dict.__init__ stores the items; parent and key are None
\* and the flat index is empty
NestedDictFrom(mapping) ==
    [children |-> mapping, chainmap |-> EmptyDict, parent |-> NoNode, key |-> <<>>]

\* the mappings of segments to a leaf value handed to a constructor
LeafMappings(v) == {[sg \in S |-> Leaf(v)] : S \in SUBSET Segments}

\* the root is built from a mapping that has "ab" as a leaf or not, and "a" as
\* a node built from a mapping of leaves or not
InitFrom ==
    /\ \E top \in {m \in LeafMappings("v2") : DOMAIN m \subseteq {SegAB}} :
          \/ heap = [x \in {Root} |-> NestedDictFrom(top)]
          \/ \E inner \in LeafMappings("v1") :
                heap = [x \in {Root, Alloc([y \in {Root} |-> NestedDictFrom(top)])} |->
                           IF x = Root
                           THEN NestedDictFrom(Put(top, SegA, Branch(Alloc([y \in {Root} |-> NestedDictFrom(top)]))))
                           ELSE NestedDictFrom(inner)]
    /\ leafParent = [v \in Values |-> NoNode]
    /\ last = [op |-> "init", node |-> Root, key |-> <<>>, value |-> "none",
               outcome |-> "ok", at |-> NoNode]
    /\ prev = [heap |-> heap, leafParent |-> leafParent]
    /\ nops = 0
    /\ FlatIdle

SpecFrom == InitFrom /\ [][Next]_vars

---------------------------------------------------------------------------
(* The reading calls, made on the root between the mutating calls *)

\* composite keys handed to the reading calls of a run: a single segment, a
\* key below it, and a key whose head is another segment
ReadKeys == {SegA, Join(SegA, SegA), Join(SegAB, SegA)}

\* the default objects handed to get by the reading calls
ReadDefaults == {PyNone, Sentinel}

\* a get that stores the default under an absent head, as dict.setdefault does
Get_setdefault(n, key, default) ==
    /\ nops < MaxOps
    /\ n \in DOMAIN heap
    /\ heap' = [heap EXCEPT ![n].children =
                   IF Partition(key).self_key \in DOMAIN @
                   THEN @
                   ELSE Put(@, Partition(key).self_key, default)]
    /\ last' = [op |-> "get", node |-> n, key |-> key, value |-> "none",
                outcome |-> IF get(heap, n, key, default) = default THEN "default" ELSE "ok",
                at |-> NoNode]
    /\ prev' = [heap |-> heap, leafParent |-> leafParent]
    /\ UNCHANGED <<leafParent, nops>>
    /\ UNCHANGED flatVars

Get(n, key, default) ==
    /\ nops < MaxOps
    /\ n \in DOMAIN heap
    /\ last' = [op |-> "get", node |-> n, key |-> key, value |-> "none",
                outcome |-> IF get(heap, n, key, default) = default THEN "default" ELSE "ok",
                at |-> NoNode]
    /\ prev' = [heap |-> heap, leafParent |-> leafParent]
    /\ UNCHANGED <<heap, leafParent, nops>>
    /\ UNCHANGED flatVars

GetLeaf(n, key) ==
    /\ nops < MaxOps
    /\ n \in DOMAIN heap
    /\ last' = [op |-> "get_leaf", node |-> n, key |-> key, value |-> "none",
                outcome |-> get_leaf(heap, n, key).outcome, at |-> NoNode]
    /\ prev' = [heap |-> heap, leafParent |-> leafParent]
    /\ UNCHANGED <<heap, leafParent, nops>>
    /\ UNCHANGED flatVars

Contains(n, key) ==
    /\ nops < MaxOps
    /\ n \in DOMAIN heap
    /\ last' = [op |-> "contains", node |-> n, key |-> key, value |-> "none",
                outcome |-> IF contains(heap, n, key) THEN "ok" ELSE "default",
                at |-> NoNode]
    /\ prev' = [heap |-> heap, leafParent |-> leafParent]
    /\ UNCHANGED <<heap, leafParent, nops>>
    /\ UNCHANGED flatVars

RootGet == \E key \in ReadKeys, default \in ReadDefaults : Get(Root, key, default)

RootGetLeaf == \E key \in ReadKeys : GetLeaf(Root, key)

RootContains == \E key \in ReadKeys : Contains(Root, key)

NextReads == Next \/ RootGet \/ RootGetLeaf \/ RootContains

SpecReads == Init /\ [][NextReads]_vars

---------------------------------------------------------------------------
(* The calls made on an AliasDict constructed with an alias table *)

InitAlias ==
    /\ NestedInit
    /\ \E table \in AliasTables : aliasDict = NewAliasDict(table)
    /\ aliasLast = [op |-> "init", key |-> "none", value |-> "none", outcome |-> "ok"]
    /\ revMap = NewReversibleMap(<<>>)
    /\ revLast = [op |-> "init", key |-> "none", value |-> "none", outcome |-> "ok"]
    /\ TypedIdle

AliasSetItem(key, value) ==
    /\ aliasDict' = alias_setitem(aliasDict, key, value)
    /\ aliasLast' = [op |-> "setitem", key |-> key, value |-> value, outcome |-> "ok"]
    /\ UNCHANGED <<nestedVars, revMap, revLast, typedVars>>

AliasDelItem(key) ==
    /\ aliasDict' = alias_delitem(aliasDict, key).d
    /\ aliasLast' = [op |-> "delitem", key |-> key, value |-> "none",
                     outcome |-> alias_delitem(aliasDict, key).outcome]
    /\ UNCHANGED <<nestedVars, revMap, revLast, typedVars>>

AliasPop(key, has_default) ==
    /\ aliasDict' = alias_pop(aliasDict, key, has_default).d
    /\ aliasLast' = [op |-> "pop", key |-> key, value |-> "none",
                     outcome |-> alias_pop(aliasDict, key, has_default).outcome]
    /\ UNCHANGED <<nestedVars, revMap, revLast, typedVars>>

AliasUpdate(other) ==
    /\ aliasDict' = alias_update(aliasDict, other, 1)
    /\ aliasLast' = [op |-> "update", key |-> "none", value |-> "none", outcome |-> "ok"]
    /\ UNCHANGED <<nestedVars, revMap, revLast, typedVars>>

NextAlias ==
    \/ \E key \in Names, value \in Values : AliasSetItem(key, value)
    \/ \E key \in Names : AliasDelItem(key)
    \/ \E key \in Names, has_default \in BOOLEAN : AliasPop(key, has_default)
    \/ \E other \in Mappings(Names, Values) : AliasUpdate(other)

SpecAlias == InitAlias /\ [][NextAlias]_vars

---------------------------------------------------------------------------
(* The calls made on a ReversibleMap constructed from a mapping *)

InitRev ==
    /\ NestedInit
    /\ aliasDict = NewAliasDict(EmptyDict)
    /\ aliasLast = [op |-> "init", key |-> "none", value |-> "none", outcome |-> "ok"]
    /\ \E mapping \in Mappings(RevKeys, RevValues) : revMap = NewReversibleMap(mapping)
    /\ revLast = [op |-> "init", key |-> "none", value |-> "none", outcome |-> "ok"]
    /\ TypedIdle

RevSetItem(key, value) ==
    /\ revMap' = rev_setitem(revMap, key, value)
    /\ revLast' = [op |-> "setitem", key |-> key, value |-> value, outcome |-> "ok"]
    /\ UNCHANGED <<nestedVars, aliasDict, aliasLast, typedVars>>

RevDelItem(key) ==
    /\ revMap' = rev_delitem(revMap, key).m
    /\ revLast' = [op |-> "delitem", key |-> key, value |-> "none",
                   outcome |-> rev_delitem(revMap, key).outcome]
    /\ UNCHANGED <<nestedVars, aliasDict, aliasLast, typedVars>>

RevUpdate(other) ==
    /\ revMap' = rev_update(revMap, other)
    /\ revLast' = [op |-> "update", key |-> "none", value |-> "none", outcome |-> "ok"]
    /\ UNCHANGED <<nestedVars, aliasDict, aliasLast, typedVars>>

\* m |= other
RevIOr(other) ==
    /\ revMap' = rev_update(revMap, other)
    /\ revLast' = [op |-> "ior", key |-> "none", value |-> "none", outcome |-> "ok"]
    /\ UNCHANGED <<nestedVars, aliasDict, aliasLast, typedVars>>

NextRev ==
    \/ \E key \in RevKeys, value \in RevValues : RevSetItem(key, value)
    \/ \E key \in RevKeys : RevDelItem(key)
    \/ \E other \in Mappings(RevKeys, RevValues) : RevUpdate(other)
    \/ \E other \in Mappings(RevKeys, RevValues) : RevIOr(other)

SpecRev == InitRev /\ [][NextRev]_vars

---------------------------------------------------------------------------
(* The calls made on a TypedList[int] constructed empty *)

InitTyped ==
    /\ NestedInit
    /\ aliasDict = NewAliasDict(EmptyDict)
    /\ aliasLast = [op |-> "init", key |-> "none", value |-> "none", outcome |-> "ok"]
    /\ revMap = NewReversibleMap(<<>>)
    /\ revLast = [op |-> "init", key |-> "none", value |-> "none", outcome |-> "ok"]
    /\ TypedIdle

TypedExtend(e) ==
    /\ Len(typedList) + Len(e.items) <= MaxLen
    /\ typedList' = typed_extend(typedList, e).list
    /\ typedLast' = [op |-> "extend", param |-> e,
                     outcome |-> typed_extend(typedList, e).outcome]
    /\ typedPrev' = typedList
    /\ UNCHANGED <<nestedVars, aliasDict, aliasLast, revMap, revLast>>

TypedRemove(r) ==
    /\ typedList' = typed_remove(typedList, r).list
    /\ typedLast' = [op |-> "remove", param |-> r,
                     outcome |-> typed_remove(typedList, r).outcome]
    /\ typedPrev' = typedList
    /\ UNCHANGED <<nestedVars, aliasDict, aliasLast, revMap, revLast>>

NextTyped ==
    \/ \E e \in Params : TypedExtend(e)
    \/ \E r \in Params : TypedRemove(r)

SpecTyped == InitTyped /\ [][NextTyped]_vars

---------------------------------------------------------------------------
(* Claims *)

\* C1 (index completeness, I2): in every reachable state, for every node N of
\* the hierarchy and every relative key P that leads from N through the tree
\* to a leaf, N's flat index has an entry under P and that entry is the leaf.
C1_IndexComplete ==
    \A n \in TreeNodes(heap) : \A P \in QueryKeys :
        LET r == Resolve(heap, n, P)
        IN  r.t = "leaf" =>
                /\ P \in DOMAIN heap[n].chainmap
                /\ heap[n].chainmap[P] = r.v

\* C2 (index minimality on write, I3): after any set, every entry of every
\* node's flat index is under a key that leads through the tree to that same
\* leaf (no stale entry below an overwritten branch, none for a leaf that was
\* replaced by a deeper path).
C2_IndexMinimalAfterSet ==
    last.op = "set" =>
        \A n \in TreeNodes(heap) : \A k \in DOMAIN heap[n].chainmap :
            Resolve(heap, n, k) = Leaf(heap[n].chainmap[k])

\* C3 (round trip, P1): right after set(k, v) on a node, on that node get(k)
\* returns v, get_leaf(k) returns v and contains(k) is true, whatever held k
\* or a prefix of k before.  Stated for the node the call is made on and for
\* every node the call recurses into, each with the key it is handed.
C3_RoundTrip ==
    last.op = "set" =>
        \A vk \in Visits(heap, last.node, last.key) :
            /\ get(heap, vk[1], vk[2], PyNone) = Leaf(last.value)
            /\ get_leaf(heap, vk[1], vk[2]) = [outcome |-> "ok", value |-> Leaf(last.value)]
            /\ contains(heap, vk[1], vk[2])

\* C3 witness: a set of a key of several segments has gone through a segment
\* that held a leaf before, and the value is read back.
C3_Witness ==
    /\ last.op = "set"
    /\ Len(SegmentsOf(last.key)) >= 2
    /\ Resolve(prev.heap, last.node, SegmentsOf(last.key)[1]).t = "leaf"
    /\ get(heap, last.node, last.key, PyNone) = Leaf(last.value)
    /\ get_leaf(heap, last.node, last.key).value = Leaf(last.value)
    /\ contains(heap, last.node, last.key)

\* C4 (containment precision, P2): in every reachable state contains(key) on
\* a node is true exactly when key leads through the tree to a leaf value.
C4_ContainsIffLeaf ==
    \A n \in TreeNodes(heap) : \A k \in QueryKeys :
        contains(heap, n, k) <=> (Resolve(heap, n, k).t = "leaf")

\* C5 (deletion prefix boundary, P6): delete_key(key) removes from the flat
\* index of a node it is called on only entries whose key is key or starts
\* with key followed by "."; an entry that merely shares a textual prefix
\* with key stays and is read by get_leaf, get and contains as before.
C5_DeletePrefixBoundary ==
    last.op = "delete_key" =>
        \A vk \in Visits(prev.heap, last.node, last.key) :
            LET n == vk[1]
                key == vk[2]
            IN  \A k \in DOMAIN prev.heap[n].chainmap :
                    /\ k \notin DOMAIN heap[n].chainmap => Covered(k, key)
                    /\ (StartsWith(k, key) /\ ~Covered(k, key)) =>
                           /\ get_leaf(heap, n, k) = get_leaf(prev.heap, n, k)
                           /\ get(heap, n, k, PyNone) = get(prev.heap, n, k, PyNone)
                           /\ contains(heap, n, k) = contains(prev.heap, n, k)

Expected(h, n, key, default) ==
    LET r == Resolve(h, n, key)
    IN  IF r = Unresolved THEN default ELSE r

\* C7: get(key, default) returns the leaf or branch node that key leads to
\* through the tree, and returns exactly the caller's default, for any default
\* value, whenever a segment is absent or a leaf is met with segments left.
C7_GetOrDefault ==
    \A n \in TreeNodes(heap) : \A k \in QueryKeys : \A d \in Defaults(heap) :
        get(heap, n, k, d) = Expected(heap, n, k, d)

\* C8: in every reachable state get_leaf(key) on a node fails with a KeyError
\* when key does not lead through the tree to a leaf from that node (a key
\* that addresses a branch included).
C8_GetLeafMiss ==
    \A n \in TreeNodes(heap) : \A k \in QueryKeys :
        Resolve(heap, n, k).t # "leaf" => get_leaf(heap, n, k).outcome = "KeyError"

\* the head segment of the remaining key is absent from the children of the
\* node delete_key reaches at some depth
HeadAbsent(h, n, key) ==
    \E vk \in Visits(h, n, key) : Partition(vk[2]).self_key \notin DOMAIN h[vk[1]].children

\* C9: delete_key(key) fails with a KeyError whenever at some depth the head
\* segment of the remaining key is absent from the children of the node
\* reached there, and then no child slot of any node has been removed.
C9_DeleteMiss ==
    (last.op = "delete_key" /\ HeadAbsent(prev.heap, last.node, last.key)) =>
        /\ last.outcome = "KeyError"
        /\ DOMAIN heap = DOMAIN prev.heap
        /\ \A n \in DOMAIN heap : heap[n].children = prev.heap[n].children

\* C9 witness: a delete_key missed below the root, at a branch that has
\* children, all of which are still there.
C9_Witness ==
    /\ last.op = "delete_key"
    /\ HeadAbsent(prev.heap, last.node, last.key)
    /\ last.outcome = "KeyError"
    /\ last.at # Root
    /\ prev.heap[last.at].children # EmptyDict
    /\ heap[last.at].children = prev.heap[last.at].children

\* C10 (no partial failure on the failing node): when delete_key fails, the
\* node at which the failure is raised is as it was before the call, its
\* children and its flat index both.
C10_FailingNodeUntouched ==
    (last.op = "delete_key" /\ last.outcome # "ok") =>
        /\ heap[last.at].children = prev.heap[last.at].children
        /\ heap[last.at].chainmap = prev.heap[last.at].chainmap

\* C11 (path identity, I4/P7): in every reachable state every branch node
\* that get(p) returns from the root reports key = p, and the root reports
\* the empty string.
C11_PathIdentity ==
    /\ AbsKey(heap, Root) = <<>>
    /\ \A p \in QueryKeys :
          LET r == get(heap, Root, p, PyNone)
          IN  IsNestedDict(r) => AbsKey(heap, r.n) = p

\* C11 witness: a branch two segments below the root reports its two-segment
\* key.
C11_Witness ==
    \E p \in Keys2 :
        LET r == get(heap, Root, p, PyNone)
        IN  IsNestedDict(r) /\ AbsKey(heap, r.n) = p /\ heap[r.n].parent # Root

\* the child slots that hold a branch node: <<holding node, segment, branch>>
BranchSlots(h) ==
    UNION {{<<m, sg, h[m].children[sg].n>> :
                sg \in {x \in DOMAIN h[m].children : IsNestedDict(h[m].children[x])}} :
           m \in DOMAIN h}

\* the node that directly holds the slot key addresses from node n, and the
\* segment of that slot
Holder(h, n, key) ==
    CHOOSE vk \in Visits(h, n, key) :
        \A other \in Visits(h, n, key) : Len(other[2]) >= Len(vk[2])

\* C12 (parent links): in every reachable state every branch node B stored
\* in N.children[s] has B.parent = N and own segment s, no branch node is
\* stored in two child slots, and right after set(key, value) the value's
\* parent slot is the node that directly holds that leaf.
C12_ParentLinks ==
    /\ \A sl \in BranchSlots(heap) :
          /\ heap[sl[3]].parent = sl[1]
          /\ heap[sl[3]].key = sl[2]
    /\ \A s1 \in BranchSlots(heap) : \A s2 \in BranchSlots(heap) :
          s1[3] = s2[3] => s1 = s2
    /\ last.op = "set" =>
          LET hd == Holder(heap, last.node, last.key)
          IN  /\ Partition(hd[2]).node_key = <<>>
              /\ heap[hd[1]].children[hd[2]] = Leaf(last.value)
              /\ leafParent[last.value] = hd[1]

\* C12 witness: a set of a three-segment key built two branches where there
\* were none; the leaf sits in the lower one, which is its parent slot.
C12_Witness ==
    /\ last.op = "set"
    /\ Len(SegmentsOf(last.key)) = 3
    /\ Resolve(prev.heap, Root, SegmentsOf(last.key)[1]) = Unresolved
    /\ Cardinality(BranchSlots(heap)) >= 2
    /\ leafParent[last.value] = Holder(heap, last.node, last.key)[1]
    /\ heap[leafParent[last.value]].parent # Root


\* what a node holds, identities aside: its flat index and, slot by slot, the
\* leaf or the content of the branch
RECURSIVE Content(_, _)
Content(h, n) ==
    [chainmap |-> h[n].chainmap,
     children |-> [sg \in DOMAIN h[n].children |->
                      IF IsNestedDict(h[n].children[sg])
                      THEN Content(h, h[n].children[sg].n)
                      ELSE h[n].children[sg]]]

\* what set(key, value) leaves in a node constructed for the call
FreshAfterSet(key, value) ==
    LET st == set([heap |-> [x \in {Root} |-> NewNode(NoNode, <<>>)],
                   leafParent |-> [v \in Values |-> NoNode]], Root, key, value)
    IN  Content(st.heap, Root)

\* C13 (clear): after clear() on a node, that node's children and flat index
\* are empty; on that node contains(k) is false, get(k, D) returns D and
\* get_leaf(k) fails for every key k and every default D; and a following
\* set(k, v) leaves in the node what it leaves in a freshly created node.
C13_ClearEmpties ==
    last.op = "clear" =>
        LET n == last.node
        IN  /\ heap[n].children = EmptyDict
            /\ heap[n].chainmap = EmptyDict
            /\ \A k \in QueryKeys :
                  /\ ~contains(heap, n, k)
                  /\ \A D \in Defaults(heap) : get(heap, n, k, D) = D
                  /\ get_leaf(heap, n, k).outcome = "KeyError"
            /\ \A k \in Keys : \A v \in Values :
                  CanAlloc(heap, k) =>
                      LET st == set([heap |-> heap, leafParent |-> leafParent], n, k, v)
                      IN  Content(st.heap, n) = FreshAfterSet(k, v)


\* C16 (pure reads): after get, get_leaf or contains, whatever the key, the
\* default and the result, the nodes are the nodes there were before the call
\* (none created, none dropped) and each has the children, flat index, parent
\* and own segment it had; the leaf values' parent slots are as they were.
C16_PureReads ==
    last.op \in {"get", "get_leaf", "contains"} =>
        /\ DOMAIN heap = DOMAIN prev.heap
        /\ \A m \in DOMAIN heap :
              /\ heap[m].children = prev.heap[m].children
              /\ heap[m].chainmap = prev.heap[m].chainmap
              /\ heap[m].parent = prev.heap[m].parent
              /\ heap[m].key = prev.heap[m].key
        /\ leafParent = prev.leafParent

\* C16 witness: a get that returned its default for a key whose head is
\* absent, on a root that holds a branch.
C16_Witness ==
    /\ last.op = "get"
    /\ last.outcome = "default"
    /\ Partition(last.key).self_key \notin DOMAIN heap[Root].children
    /\ Partition(last.key).node_key # <<>>
    /\ \E sg \in DOMAIN heap[Root].children : IsNestedDict(heap[Root].children[sg])
    /\ heap = prev.heap


\* k is key itself or key cut at a segment boundary
SegPrefix(k, key) == Covered(key, k)

\* k is on the path of key: a segment-wise prefix or extension of it
Related(k, key) == SegPrefix(k, key) \/ Covered(k, key)

\* C17 (set preserves unrelated paths): after set(k, v) on a node, for every
\* key k' that is neither a segment-wise prefix nor a segment-wise extension
\* of k, get(k', D), get_leaf(k') and contains(k') on that node give what they
\* gave before the call; and every branch that was on k's path before the call
\* is the branch on it after the call.
C17_SetPreservesUnrelated ==
    last.op = "set" =>
        /\ \A k \in QueryKeys :
              ~Related(k, last.key) =>
                  /\ \A D \in ReadDefaults :
                        get(heap, last.node, k, D) = get(prev.heap, last.node, k, D)
                  /\ get_leaf(heap, last.node, k) = get_leaf(prev.heap, last.node, k)
                  /\ contains(heap, last.node, k) = contains(prev.heap, last.node, k)
        /\ \A k \in QueryKeys :
              (SegPrefix(k, last.key) /\ k # last.key
                 /\ IsNestedDict(get(prev.heap, last.node, k, PyNone))) =>
                  get(heap, last.node, k, PyNone) = get(prev.heap, last.node, k, PyNone)

\* C17 witness: a set through an existing branch that already held a leaf
\* under another segment; the leaf is still read there.
C17_Witness ==
    /\ last.op = "set"
    /\ Partition(last.key).node_key # <<>>
    /\ IsNestedDict(get(prev.heap, last.node, Partition(last.key).self_key, PyNone))
    /\ \E k \in Keys2 :
          /\ ~Related(k, last.key)
          /\ Partition(k).self_key = Partition(last.key).self_key
          /\ get_leaf(prev.heap, last.node, k).outcome = "ok"
          /\ get(heap, last.node, k, PyNone) = get_leaf(heap, last.node, k).value
          /\ contains(heap, last.node, k)


\* the keys that are key cut at a segment boundary before its last segment
ProperPrefixes(key) == {p \in QueryKeys : SegPrefix(p, key) /\ p # key}

\* C18 (delete never prunes ancestors): after a successful delete_key(k) on a
\* node, every proper segment-wise prefix of k still resolves from that node
\* to a branch node, a delete_key of that prefix made next succeeds, and after
\* it get of the prefix returns the default.
C18_AncestorsKept ==
    (last.op = "delete_key" /\ last.outcome = "ok") =>
        \A p \in ProperPrefixes(last.key) :
            /\ IsNestedDict(get(heap, last.node, p, PyNone))
            /\ get(heap, last.node, p, PyNone) = get(prev.heap, last.node, p, PyNone)
            /\ LET r == delete_key(heap, last.node, p)
               IN  /\ r.outcome = "ok"
                   /\ \A D \in Defaults(r.heap) : get(r.heap, last.node, p, D) = D

\* C18 witness: a successful delete_key of a three-segment key that emptied
\* the branch holding the leaf; that branch and the one above it are still
\* in their slots.
C18_Witness ==
    /\ last.op = "delete_key"
    /\ last.outcome = "ok"
    /\ Len(SegmentsOf(last.key)) = 3
    /\ Cardinality(ProperPrefixes(last.key)) = 2
    /\ \E p \in ProperPrefixes(last.key) :
          LET b == get(heap, last.node, p, PyNone)
          IN  IsNestedDict(b) /\ heap[b.n].children = EmptyDict /\ heap[b.n].parent # Root


\* C19 (pre-populated constructor): a root just constructed from a mapping
\* has every leaf it holds, directly or below a supplied branch, in its flat
\* index under the relative key, so that get_leaf finds exactly the leaves get
\* finds and contains finds; and every supplied child has the root as parent.
C19_ConstructedConsistent ==
    last.op = "init" =>
        /\ \A P \in QueryKeys :
              LET r == Resolve(heap, Root, P)
              IN  /\ r.t = "leaf" =>
                        /\ P \in DOMAIN heap[Root].chainmap
                        /\ heap[Root].chainmap[P] = r.v
                        /\ get_leaf(heap, Root, P).value = get(heap, Root, P, PyNone)
                  /\ (get_leaf(heap, Root, P).outcome = "ok") <=>
                        (contains(heap, Root, P) /\ ~IsNestedDict(get(heap, Root, P, PyNone)))
        /\ \A sg \in DOMAIN heap[Root].children :
              LET c == heap[Root].children[sg]
              IN  IF IsNestedDict(c)
                  THEN heap[c.n].parent = Root
                  ELSE leafParent[c.v] = Root


\* the nodes above node n, up to the root, by the parent back-references
RECURSIVE Ancestors(_, _)
Ancestors(h, n) ==
    IF h[n].parent = NoNode THEN {} ELSE {h[n].parent} \cup Ancestors(h, h[n].parent)

\* C20 (calls entered below the root): after set, delete_key or clear called
\* on a branch node B that get returns from the root, every ancestor of B up
\* to the root has a flat index whose keys are exactly the relative keys that
\* lead from that ancestor through the tree to a leaf, each mapped to that leaf.
C20_AncestorsSynchronized ==
    (last.op \in {"set", "delete_key", "clear"} /\ last.node # Root) =>
        \A A \in Ancestors(heap, last.node) :
            \A P \in QueryKeys \cup DOMAIN heap[A].chainmap :
                LET r == Resolve(heap, A, P)
                IN  /\ r.t = "leaf" =>
                          (P \in DOMAIN heap[A].chainmap /\ heap[A].chainmap[P] = r.v)
                    /\ P \in DOMAIN heap[A].chainmap =>
                          (r.t = "leaf" /\ r.v = heap[A].chainmap[P])


\* the name a chain of aliases starting at name ends in, followed for at most
\* as many steps as there are names
RECURSIVE Resolved(_, _, _)
Resolved(d, name, steps) ==
    IF steps = 0 \/ canonical(d, name) = name
    THEN name
    ELSE Resolved(d, canonical(d, name), steps - 1)

\* C14 (AliasDict stores canonical keys only): in every reachable state, for
\* whatever alias table the dict was constructed with, no stored key is a
\* name the table maps to another name; and after an item assignment under a
\* name, the value is read back under every name that resolves to the same
\* canonical name.
C14_CanonicalKeysOnly ==
    /\ \A k \in DOMAIN aliasDict.items : canonical(aliasDict, k) = k
    /\ aliasLast.op = "setitem" =>
          \A name \in Names :
              Resolved(aliasDict, name, Cardinality(Names))
                  = Resolved(aliasDict, aliasLast.key, Cardinality(Names)) =>
                  alias_getitem(aliasDict, name) = [outcome |-> "ok", value |-> aliasLast.value]

\* the stored values
StoredValues(m) == {m.items[i][2] : i \in 1..Len(m.items)}

\* C15 (ReversibleMap reverse index is the inverse of the forward map): in
\* every reachable state rget(v) returns, for every stored value v, a key
\* whose stored value has v's identity; and rget fails for every identity no
\* stored value has.
C15_ReverseIsInverse ==
    /\ \A v \in StoredValues(revMap) :
          LET r == rget(revMap, v, TRUE)
          IN  /\ r.outcome = "ok"
              /\ IndexOf(revMap.items, r.key) # 0
              /\ Identity(revMap.items[IndexOf(revMap.items, r.key)][2]) = Identity(v)
    /\ \A i \in Identities :
          (\A v \in StoredValues(revMap) : Identity(v) # i) =>
              rget(revMap, i, FALSE).outcome = "KeyError"


\* l with one occurrence of every item of r that it has removed, the items it
\* has not skipped, from the i-th item on
RECURSIVE remove_each(_, _, _)
remove_each(l, r, i) ==
    IF i > Len(r)
    THEN l
    ELSE IF Has(l, r[i])
         THEN remove_each(ListRemove(l, r[i]), r, i + 1)
         ELSE remove_each(l, r, i + 1)

\* every item of the argument has the element type
AllValid(p) == \A i \in 1..Len(p.items) : IsValidType(p.items[i])

\* C21 (TypedList.remove and the type check): after remove with items all of
\* the element type, the list is the list before the call with one occurrence
\* of every given item that was present removed, the absent items skipped,
\* whatever their order; after extend or remove given any item of the wrong
\* type, the call has raised TypeError and the list is as it was before.
C21_RemoveEachAndTypeCheck ==
    /\ (typedLast.op = "remove" /\ AllValid(typedLast.param)) =>
          /\ typedLast.outcome = "ok"
          /\ typedList = remove_each(typedPrev, typedLast.param.items, 1)
    /\ (typedLast.op \in {"extend", "remove"} /\ ~AllValid(typedLast.param)) =>
          /\ typedLast.outcome = "TypeError"
          /\ typedList = typedPrev

=============================================================================
